---- MODULE Spec2Model ----
(***************************************************************************)
(* Model of FreeOrion's checksum combinator (util/CheckSums.h) and of the  *)
(* lazily resolved hull registry ShipHullManager (universe/ShipHull.h).    *)
(*                                                                         *)
(* A uint32_t does not fit TLC's integers, so every machine integer is a   *)
(* little-endian sequence of 16-bit limbs: <<lo, hi>> is a uint32_t,       *)
(* four limbs are a uint64_t.  All arithmetic is done limb by limb, with   *)
(* the wrap-around of the 32-bit accumulator kept.                         *)
(***************************************************************************)
EXTENDS Integers, Sequences, FiniteSets, TLC

VARIABLES
    sum,        \* the uint32_t accumulator the combinator updates in place
    prev,       \* the accumulator as it was passed to the last CheckSumCombine
    arg,        \* the value passed to the last CheckSumCombine
    steps,      \* CheckSumCombine calls made so far
    m_pending_ship_hulls,   \* the attached future, or None
    m_hulls,    \* the registry's content: name -> hull
    swapping,   \* whether m_hulls is being exchanged with the resolved content
    mutex,      \* the reader inside check-pending/resolve/swap, or 0
    sets,       \* SetShipHulls calls so far
    source,     \* the collection the future attached last yields
    resolved,   \* how often the future attached last was waited for
    pc,         \* pc[r]: where reader r is in its query
    fresh,      \* fresh[r]: no SetShipHulls since r issued its query
    got,        \* got[r]: the collection r took out of the future
    result,     \* result[r]: what r's query returned
    served      \* queries answered since the last SetShipHulls, up to 2

cvars == <<sum, prev, arg, steps>>
rvars ==
    <<m_pending_ship_hulls, m_hulls, swapping, mutex, sets, source, resolved,
      pc, fresh, got, result, served>>
vars == <<cvars, rvars>>

(***************************************************************************)
(* Bounds of the model.                                                    *)
(***************************************************************************)
MaxSteps == 2       \* CheckSumCombine calls in one run
MaxLen == 2         \* elements of a container
MaxReaders == 2     \* threads that query the registry
MaxSets == 2        \* SetShipHulls calls in one run

(***************************************************************************)
(* 32-bit unsigned arithmetic on limbs.                                    *)
(***************************************************************************)
CHECKSUM_MODULUS == 10000000

Limb == 2^16

\* the uint32_t holding n, for 0 <= n < 2^31
U32(n) == <<n % Limb, n \div Limb>>

Zero == U32(0)

\* static_cast<uint32_t>(t) of an unsigned t of any width: the low 32 bits
StaticCastU32(t) == <<t[1], IF Len(t) >= 2 THEN t[2] ELSE 0>>

\* a += b on uint32_t: addition modulo 2^32
U32Add(a, b) ==
    LET lo == a[1] + b[1]
        hi == a[2] + b[2] + (lo \div Limb)
    IN  <<lo % Limb, hi % Limb>>

\* x * 2^16 mod CHECKSUM_MODULUS for x < CHECKSUM_MODULUS, in steps that fit
Times16(x) == (x * 16) % CHECKSUM_MODULUS
ShiftLimb(x) == Times16(Times16(Times16(Times16(x))))

\* the value of a limb sequence modulo CHECKSUM_MODULUS
RECURSIVE LimbsMod(_)
LimbsMod(l) ==
    IF l = <<>> THEN 0
    ELSE (ShiftLimb(LimbsMod(Tail(l))) + Head(l)) % CHECKSUM_MODULUS

\* sum %= CHECKSUM_MODULUS
U32Mod(a) == U32(LimbsMod(a))

INT_MIN == -2147483647 - 1

\* std::abs of an int that is not INT_MIN
Abs(t) == IF t < 0 THEN 0 - t ELSE t

(***************************************************************************)
(* CheckSumCombine, one operator per overload.  A value is a record whose  *)
(* field cat names the overload that C++ overload resolution selects.      *)
(***************************************************************************)
RECURSIVE CheckSumCombine(_, _)

\* integral types, signed: t is an int
CheckSumCombine_signed(s, t) == U32Mod(U32Add(s, U32(Abs(t))))

\* the unsigned overload with the reduction forgotten
CheckSumCombine_unsigned_unreduced(s, t) == U32Add(s, StaticCastU32(t))

\* integral types, unsigned: t is a limb sequence of the type's width
CheckSumCombine_unsigned(s, t) == U32Mod(U32Add(s, StaticCastU32(t)))

\* classes that have GetCheckSum methods: cs is what c.GetCheckSum() returns
CheckSumCombine_GetCheckSum(s, cs) == U32Mod(U32Add(s, cs))

\* the enum overload with the offset forgotten
CheckSumCombine_enum_no_offset(s, ord) == CheckSumCombine_signed(s, ord)

\* enums: ord is static_cast<int>(t)
CheckSumCombine_enum(s, ord) == CheckSumCombine_signed(s, ord + 10)

\* the pointer overload reducing the sum like every other overload
CheckSumCombine_ptr_reducing(s, p) ==
    U32Mod(IF p.present THEN CheckSumCombine(s, p.target) ELSE s)

\* pointer types (raw, shared_ptr, unique_ptr)
CheckSumCombine_ptr(s, p) ==
    IF p.present THEN CheckSumCombine(s, p.target) ELSE s

\* the pair overload combining p.first twice
CheckSumCombine_pair_first_twice(s, p) ==
    CheckSumCombine(CheckSumCombine(s, p.first), p.first)

\* pairs
CheckSumCombine_pair(s, p) ==
    CheckSumCombine(CheckSumCombine(s, p.first), p.second)

\* the loop of the container overload: for (const auto& t : c)
RECURSIVE CombineEach(_, _)
CombineEach(s, c) ==
    IF c = <<>> THEN s
    ELSE CombineEach(CheckSumCombine(s, Head(c)), Tail(c))

\* the container overload with the reduction forgotten
CheckSumCombine_container_unreduced(s, c) ==
    U32Add(CombineEach(s, c), U32(Len(c)))

\* the container overload with the element count forgotten
CheckSumCombine_container_no_size(s, c) == U32Mod(CombineEach(s, c))

\* iterable containers: c.size() is a size_t, the sum is converted back
CheckSumCombine_container(s, c) ==
    U32Mod(U32Add(CombineEach(s, c), U32(Len(c))))

\* double and float: r is the rounded magnitude cast to unsigned
CheckSumCombine_float(s, r) == U32Mod(U32Add(s, r))

\* text: every code point of the sequence, in order
RECURSIVE CheckSumCombine_text(_, _)
CheckSumCombine_text(s, str) ==
    IF str = <<>> THEN U32Mod(s)
    ELSE CheckSumCombine_text(U32Mod(U32Add(s, U32(Head(str)))), Tail(str))

CheckSumCombine(s, v) ==
    CASE v.cat = "float"     -> CheckSumCombine_float(s, v.r)
      [] v.cat = "text"      -> CheckSumCombine_text(s, v.str)
      [] v.cat = "signed"    -> CheckSumCombine_signed(s, v.i)
      [] v.cat = "unsigned"  -> CheckSumCombine_unsigned(s, v.u)
      [] v.cat = "composite" -> CheckSumCombine_GetCheckSum(s, v.cs)
      [] v.cat = "enum"      -> CheckSumCombine_enum(s, v.ord)
      [] v.cat = "ptr"       -> CheckSumCombine_ptr(s, v)
      [] v.cat = "pair"      -> CheckSumCombine_pair(s, v)
      [] v.cat = "container" -> CheckSumCombine_container(s, v.c)

(***************************************************************************)
(* The values the combinator is applied to.                                *)
(***************************************************************************)
\* ShipSlotType, as FO_ENUM numbers it
INVALID_SHIP_SLOT_TYPE == -1
SL_EXTERNAL == 0
SL_INTERNAL == 1
SL_CORE == 2
NUM_SHIP_SLOT_TYPES == 3

ShipSlotType ==
    {INVALID_SHIP_SLOT_TYPE, SL_EXTERNAL, SL_INTERNAL, SL_CORE, NUM_SHIP_SLOT_TYPES}

\* the enum overload is a template over every enumeration type: ordinals of
\* other enumerations, below and at the edge of -10
OtherEnumOrdinals == {-11, -10}

UINT32_MAX == <<Limb - 1, Limb - 1>>

\* accumulators a caller may pass in: any uint32_t
SumSamples ==
    {Zero, U32(1), U32(CHECKSUM_MODULUS - 1), U32(CHECKSUM_MODULUS),
     <<0, Limb \div 2>>, UINT32_MAX}

Floats == {[cat |-> "float", r |-> r] : r \in {U32(10), UINT32_MAX}}

Texts == {[cat |-> "text", str |-> str] : str \in {<<>>, <<66>>, <<72, 66>>}}

Signeds ==
    {[cat |-> "signed", i |-> t] : t \in {-2147483647, -15, 0, 7, 2147483647}}

\* uint8_t/uint16_t (one limb), uint32_t (two limbs), uint64_t (four limbs)
Unsigneds ==
    {[cat |-> "unsigned", u |-> t] :
        t \in {<<5>>, <<Limb - 1>>, U32(7), U32(CHECKSUM_MODULUS),
               UINT32_MAX, <<5, 0, 1, 0>>, <<Limb - 1, Limb - 1, Limb - 1, Limb - 1>>}}

Composites ==
    {[cat |-> "composite", cs |-> cs] : cs \in {Zero, U32(1234567), UINT32_MAX}}

Enums == {[cat |-> "enum", ord |-> o] : o \in ShipSlotType \cup OtherEnumOrdinals}

Absent == [cat |-> "ptr", present |-> FALSE]
Present(v) == [cat |-> "ptr", present |-> TRUE, target |-> v]

Pair(a, b) == [cat |-> "pair", first |-> a, second |-> b]
Container(c) == [cat |-> "container", c |-> c]

\* what a pointer may point to
Targets ==
    {[cat |-> "signed", i |-> -15], [cat |-> "unsigned", u |-> UINT32_MAX],
     [cat |-> "composite", cs |-> U32(1234567)], [cat |-> "text", str |-> <<66>>],
     Absent}

Pointers == {Absent} \cup {Present(v) : v \in Targets}

\* the components of a pair
PairParts ==
    {[cat |-> "unsigned", u |-> U32(5)], [cat |-> "unsigned", u |-> UINT32_MAX],
     [cat |-> "signed", i |-> -7], [cat |-> "composite", cs |-> U32(1234567)],
     Absent}

Pairs == {Pair(a, b) : a \in PairParts, b \in PairParts}

\* the elements of a container
Elements ==
    {[cat |-> "signed", i |-> -15], Absent,
     Pair([cat |-> "text", str |-> <<66>>],
          Present([cat |-> "composite", cs |-> U32(1234567)]))}

SeqsUpTo(S, n) == UNION {[1..k -> S] : k \in 0..n}

Containers == {Container(c) : c \in SeqsUpTo(Elements, MaxLen)}

(***************************************************************************)
(* ShipHullManager: the registry of hulls, filled from a pending future on *)
(* the first query.  Names are strings, held as sequences of code points.  *)
(***************************************************************************)
\* boost::none, and an attached Pending whose future is or is not ready
None == [attached |-> FALSE]
Pending(ready) == [attached |-> TRUE, ready |-> ready]

Readers == 1..MaxReaders

\* std::less<> on two names: lexicographic order
RECURSIVE StrLess(_, _)
StrLess(a, b) ==
    IF b = <<>> THEN FALSE
    ELSE IF a = <<>> THEN TRUE
    ELSE IF Head(a) # Head(b) THEN Head(a) < Head(b)
    ELSE StrLess(Tail(a), Tail(b))

\* the keys of a container_type in the order its iterator visits them
RECURSIVE KeyOrder(_)
KeyOrder(keys) ==
    IF keys = {} THEN <<>>
    ELSE LET least == CHOOSE k \in keys : \A o \in keys \ {k} : StrLess(k, o)
         IN  <<least>> \o KeyOrder(keys \ {least})

\* a hull: its name, a field of its content, and what its GetCheckSum returns
Hull(name, structure, cs) ==
    [m_name |-> name, m_structure |-> structure, checksum |-> cs]

NameB == <<66>>
NameBH == <<66, 72>>
NameH == <<72>>

\* the names readers look up
Names == {NameB, NameH}

EmptyHulls == [n \in {} |-> Hull(<<>>, 0, Zero)]

\* the collections a parser may yield
Sources ==
    {[n \in {NameB, NameH} |->
        IF n = NameB THEN Hull(NameB, 10, U32(1234567))
        ELSE Hull(NameH, 50, U32(CHECKSUM_MODULUS - 1))],
     [n \in {NameB, NameBH} |->
        IF n = NameB THEN Hull(NameB, 20, U32(7654321))
        ELSE Hull(NameBH, 50, U32(CHECKSUM_MODULUS - 1))]}

\* what a reader has not got
Nothing == [op |-> "none"]

\* GetShipHull: the hull with that name, or nullptr
GetShipHull(hulls, name) ==
    IF name \in DOMAIN hulls
    THEN [found |-> TRUE, hull |-> hulls[name]]
    ELSE [found |-> FALSE]

\* begin() to end(): the entries in key order
Entries(hulls) ==
    LET order == KeyOrder(DOMAIN hulls)
    IN  [k \in 1..Len(order) |-> <<order[k], hulls[order[k]]>>]

\* size()
size(hulls) == Cardinality(DOMAIN hulls)

\* an entry as the combinator sees it: pair<const string, unique_ptr<ShipHull>>
EntryValue(e) ==
    Pair([cat |-> "text", str |-> e[1]],
         Present([cat |-> "composite", cs |-> e[2].checksum]))

\* a size_t as an unsigned value of 64 bits
SizeT(n) == [cat |-> "unsigned", u |-> <<n % Limb, n \div Limb, 0, 0>>]

\* GetCheckSum: every entry from 0 in key order, then the size
GetCheckSum(hulls) ==
    LET entries == Entries(hulls)
        retval == CombineEach(Zero, [k \in 1..Len(entries) |-> EntryValue(entries[k])])
    IN  CheckSumCombine(retval, SizeT(size(hulls)))

\* a registry that starts with content it was never given
InitRegistry_stale ==
    /\ m_pending_ship_hulls = None
    /\ m_hulls \in Sources
    /\ swapping = FALSE
    /\ mutex = 0
    /\ sets = 0
    /\ source = EmptyHulls
    /\ resolved = 0
    /\ pc = [r \in Readers |-> "idle"]
    /\ fresh = [r \in Readers |-> FALSE]
    /\ got = [r \in Readers |-> EmptyHulls]
    /\ result = [r \in Readers |-> Nothing]
    /\ served = 0

\* the registry after construction: no future attached, no hulls
InitRegistry ==
    /\ m_pending_ship_hulls = None
    /\ m_hulls = EmptyHulls
    /\ swapping = FALSE
    /\ mutex = 0
    /\ sets = 0
    /\ source = EmptyHulls
    /\ resolved = 0
    /\ pc = [r \in Readers |-> "idle"]
    /\ fresh = [r \in Readers |-> FALSE]
    /\ got = [r \in Readers |-> EmptyHulls]
    /\ result = [r \in Readers |-> Nothing]
    /\ served = 0

\* SetShipHulls: attach a future, replacing one not yet resolved; the one
\* writer does not attach while a reader is resolving
SetShipHulls ==
    \E c \in Sources :
        /\ sets < MaxSets
        /\ mutex = 0
        /\ sets' = sets + 1
        /\ source' = c
        /\ resolved' = 0
        /\ m_pending_ship_hulls' = Pending(FALSE)
        /\ fresh' = [r \in Readers |-> FALSE]
        /\ served' = 0
        /\ UNCHANGED <<m_hulls, swapping, mutex, pc, got, result, cvars>>

\* the parser finishes: the attached future becomes ready
ParserCompletes ==
    /\ m_pending_ship_hulls = Pending(FALSE)
    /\ m_pending_ship_hulls' = Pending(TRUE)
    /\ UNCHANGED <<m_hulls, swapping, mutex, sets, source, resolved, pc, fresh,
                   got, result, served, cvars>>

\* a reader calls GetShipHull, begin/end, size or GetCheckSum
Query(r) ==
    /\ pc[r] \in {"idle", "done"}
    /\ pc' = [pc EXCEPT ![r] = "lock"]
    /\ fresh' = [fresh EXCEPT ![r] = TRUE]
    /\ result' = [result EXCEPT ![r] = Nothing]
    /\ UNCHANGED <<m_pending_ship_hulls, m_hulls, swapping, mutex, sets, source,
                   resolved, got, served, cvars>>

\* entering check-pending/resolve/swap without waiting for the lock
Lock_not_exclusive(r) ==
    /\ pc[r] = "lock"
    /\ mutex' = r
    /\ pc' = [pc EXCEPT ![r] = "check"]
    /\ UNCHANGED <<m_pending_ship_hulls, m_hulls, swapping, sets, source, resolved,
                   fresh, got, result, served, cvars>>

\* CheckPendingShipHulls: take the lock that guards check-pending/resolve/swap
Lock(r) ==
    /\ pc[r] = "lock"
    /\ mutex = 0
    /\ mutex' = r
    /\ pc' = [pc EXCEPT ![r] = "check"]
    /\ UNCHANGED <<m_pending_ship_hulls, m_hulls, swapping, sets, source, resolved,
                   fresh, got, result, served, cvars>>

\* CheckPendingShipHulls: nothing pending, so the content is served as it is
CheckNotPending(r) ==
    /\ pc[r] = "check"
    /\ m_pending_ship_hulls = None
    /\ mutex' = 0
    /\ pc' = [pc EXCEPT ![r] = "read"]
    /\ UNCHANGED <<m_pending_ship_hulls, m_hulls, swapping, sets, source, resolved,
                   fresh, got, result, served, cvars>>

\* CheckPendingShipHulls: a future is pending, so it is resolved
CheckPending(r) ==
    /\ pc[r] = "check"
    /\ m_pending_ship_hulls # None
    /\ pc' = [pc EXCEPT ![r] = "wait"]
    /\ UNCHANGED <<m_pending_ship_hulls, m_hulls, swapping, mutex, sets, source,
                   resolved, fresh, got, result, served, cvars>>

\* the reader blocks until the parser is done and takes the collection
WaitForPending(r) ==
    /\ pc[r] = "wait"
    /\ m_pending_ship_hulls = Pending(TRUE)
    /\ got' = [got EXCEPT ![r] = source]
    /\ resolved' = resolved + 1
    /\ pc' = [pc EXCEPT ![r] = "swap"]
    /\ UNCHANGED <<m_pending_ship_hulls, m_hulls, swapping, mutex, sets, source,
                   fresh, result, served, cvars>>

\* the exchange of m_hulls with the resolved collection begins
BeginSwap(r) ==
    /\ pc[r] = "swap"
    /\ swapping' = TRUE
    /\ pc' = [pc EXCEPT ![r] = "swapped"]
    /\ UNCHANGED <<m_pending_ship_hulls, m_hulls, mutex, sets, source, resolved,
                   fresh, got, result, served, cvars>>

\* an exchange that leaves the pending marker in place
EndSwap_keeps_pending(r) ==
    /\ pc[r] = "swapped"
    /\ m_hulls' = got[r]
    /\ swapping' = FALSE
    /\ mutex' = 0
    /\ got' = [got EXCEPT ![r] = EmptyHulls]
    /\ pc' = [pc EXCEPT ![r] = "read"]
    /\ UNCHANGED <<m_pending_ship_hulls, sets, source, resolved, fresh, result,
                   served, cvars>>

\* an exchange that merges the resolved collection into the old content
EndSwap_merges(r) ==
    /\ pc[r] = "swapped"
    /\ m_hulls' = [n \in DOMAIN m_hulls \cup DOMAIN got[r] |->
                     IF n \in DOMAIN got[r] THEN got[r][n] ELSE m_hulls[n]]
    /\ m_pending_ship_hulls' = None
    /\ swapping' = FALSE
    /\ mutex' = 0
    /\ got' = [got EXCEPT ![r] = EmptyHulls]
    /\ pc' = [pc EXCEPT ![r] = "read"]
    /\ UNCHANGED <<sets, source, resolved, fresh, result, served, cvars>>

\* the exchange ends: the resolved collection is the content, the pending
\* marker is discarded and the lock released
EndSwap(r) ==
    /\ pc[r] = "swapped"
    /\ m_hulls' = got[r]
    /\ m_pending_ship_hulls' = None
    /\ swapping' = FALSE
    /\ mutex' = 0
    /\ got' = [got EXCEPT ![r] = EmptyHulls]
    /\ pc' = [pc EXCEPT ![r] = "read"]
    /\ UNCHANGED <<sets, source, resolved, fresh, result, served, cvars>>

\* what the query returns, computed from the content without the lock
Answer(op, name, hulls, torn) ==
    [op |-> op, name |-> name, from |-> hulls, torn |-> torn,
     value |-> CASE op = "GetShipHull" -> GetShipHull(hulls, name)
                 [] op = "begin"       -> Entries(hulls)
                 [] op = "size"        -> size(hulls)
                 [] op = "GetCheckSum" -> GetCheckSum(hulls)]

Queries ==
    {<<"GetShipHull", n>> : n \in Names}
        \cup {<<op, <<>>>> : op \in {"begin", "size", "GetCheckSum"}}

Read(r) ==
    \E q \in Queries :
        /\ pc[r] = "read"
        /\ result' = [result EXCEPT ![r] = Answer(q[1], q[2], m_hulls, swapping)]
        /\ served' = IF fresh[r] /\ served < 2
                     THEN served + 1 ELSE served
        /\ pc' = [pc EXCEPT ![r] = "done"]
        /\ UNCHANGED <<m_pending_ship_hulls, m_hulls, swapping, mutex, sets, source,
                       resolved, fresh, got, cvars>>

(***************************************************************************)
(* The combinator as a state machine: a caller passes an accumulator and   *)
(* folds values into it, one CheckSumCombine call per step.                *)
(***************************************************************************)
InitCombine ==
    /\ sum \in SumSamples
    /\ prev = sum
    /\ arg = [cat |-> "none"]
    /\ steps = 0
    /\ InitRegistry

\* the bookkeeping of one call: what was passed in
Called(v) ==
    /\ prev' = sum
    /\ arg' = v
    /\ steps' = steps + 1
    /\ UNCHANGED rvars

CombineFloat ==
    \E v \in Floats :
        /\ steps < MaxSteps
        /\ sum' = CheckSumCombine(sum, v)
        /\ Called(v)

CombineText ==
    \E v \in Texts :
        /\ steps < MaxSteps
        /\ sum' = CheckSumCombine(sum, v)
        /\ Called(v)

CombineSigned ==
    \E v \in Signeds :
        /\ steps < MaxSteps
        /\ sum' = CheckSumCombine(sum, v)
        /\ Called(v)

CombineUnsigned ==
    \E v \in Unsigneds :
        /\ steps < MaxSteps
        /\ sum' = CheckSumCombine(sum, v)
        /\ Called(v)

CombineComposite ==
    \E v \in Composites :
        /\ steps < MaxSteps
        /\ sum' = CheckSumCombine(sum, v)
        /\ Called(v)

CombineEnum ==
    \E v \in Enums :
        /\ steps < MaxSteps
        /\ sum' = CheckSumCombine(sum, v)
        /\ Called(v)

CombinePointer ==
    \E v \in Pointers :
        /\ steps < MaxSteps
        /\ sum' = CheckSumCombine(sum, v)
        /\ Called(v)

CombinePair ==
    \E v \in Pairs :
        /\ steps < MaxSteps
        /\ sum' = CheckSumCombine(sum, v)
        /\ Called(v)

CombineContainer ==
    \E v \in Containers :
        /\ steps < MaxSteps
        /\ sum' = CheckSumCombine(sum, v)
        /\ Called(v)

\* std::abs(INT_MIN) is undefined: the cast may yield any uint32_t, among
\* them INT_MIN's own bit pattern
CombineSignedIntMin ==
    /\ steps < MaxSteps
    /\ \E a \in {Zero, <<0, Limb \div 2>>, UINT32_MAX} : sum' = U32Mod(U32Add(sum, a))
    /\ Called([cat |-> "signed", i |-> INT_MIN])

NextCombine ==
    \/ CombineFloat
    \/ CombineText
    \/ CombineSigned
    \/ CombineSignedIntMin
    \/ CombineUnsigned
    \/ CombineComposite
    \/ CombineEnum
    \/ CombinePointer
    \/ CombinePair
    \/ CombineContainer

SpecCombine == InitCombine /\ [][NextCombine]_vars

(***************************************************************************)
(* The registry as a state machine: one thread attaches futures, the       *)
(* parser completes them, and the readers query.                           *)
(***************************************************************************)
Init ==
    /\ sum = Zero
    /\ prev = Zero
    /\ arg = [cat |-> "none"]
    /\ steps = 0
    /\ InitRegistry

Next ==
    \/ SetShipHulls
    \/ ParserCompletes
    \/ \E r \in Readers : Query(r)
    \/ \E r \in Readers : Lock(r)
    \/ \E r \in Readers : CheckNotPending(r)
    \/ \E r \in Readers : CheckPending(r)
    \/ \E r \in Readers : WaitForPending(r)
    \/ \E r \in Readers : BeginSwap(r)
    \/ \E r \in Readers : EndSwap(r)
    \/ \E r \in Readers : Read(r)

Spec == Init /\ [][Next]_vars

(***************************************************************************)
(* Properties of the combinator.                                           *)
(***************************************************************************)
\* s is in [0, CHECKSUM_MODULUS)
InRange(s) == s[2] < Limb \div 2 /\ s[2] * Limb + s[1] < CHECKSUM_MODULUS

\* q * CHECKSUM_MODULUS + r as a uint32_t, or <<>> when it does not fit
Multiple(q, r) ==
    LET lo == q * (CHECKSUM_MODULUS % Limb) + r[1]
        hi == q * (CHECKSUM_MODULUS \div Limb) + r[2] + (lo \div Limb)
    IN  IF hi < Limb THEN <<lo % Limb, hi>> ELSE <<>>

\* r = u mod CHECKSUM_MODULUS for a uint32_t u, by the definition of mod
IsModOf(r, u) ==
    /\ InRange(r)
    /\ \E q \in 0..(Limb \div (CHECKSUM_MODULUS \div Limb)) : Multiple(q, r) = u

\* the low 32 bits of an unsigned value
Low32(u) == IF Len(u) = 1 THEN <<u[1], 0>> ELSE <<u[1], u[2]>>

\* the int n read as a uint32_t (two's complement)
AsUnsigned(n) ==
    IF n >= 0 THEN U32(n)
    ELSE LET m == U32((0 - n) - 1) IN <<Limb - 1 - m[1], Limb - 1 - m[2]>>

\* whether combining v reduces the sum at least once
RECURSIVE Reduces(_)
Reduces(v) ==
    CASE v.cat = "ptr"  -> v.present /\ Reduces(v.target)
      [] v.cat = "pair" -> Reduces(v.first) \/ Reduces(v.second)
      [] OTHER          -> TRUE

\* C1 as stated: after every CheckSumCombine, whatever the value and the
\* accumulator passed in, the accumulator is in [0, CHECKSUM_MODULUS).
C1_EveryStepInRange == steps > 0 => InRange(sum)

\* C1 amended: after a CheckSumCombine the accumulator is in
\* [0, CHECKSUM_MODULUS) for every accumulator passed in unless the value is
\* an absent pointer (or consists of absent pointers only), which leaves the
\* accumulator as it was; so it is in range whenever the accumulator passed
\* in was, and after any sequence of calls that starts in range.
C1_InRangeUnlessAbsent ==
    (steps > 0 /\ (Reduces(arg) \/ InRange(prev))) => InRange(sum)

C1_Witness ==
    /\ steps = 1
    /\ ~InRange(prev)
    /\ arg.cat = "pair"
    /\ Reduces(arg)
    /\ InRange(sum)

\* C5 as stated: for every unsigned u of every width, combining u into 0
\* gives u mod CHECKSUM_MODULUS.
C5_UnsignedIsMod ==
    (steps > 0 /\ arg.cat = "unsigned" /\ prev = Zero)
        => sum = U32(LimbsMod(arg.u))

\* C5 amended: combining an unsigned u into 0 gives (u mod 2^32) mod
\* CHECKSUM_MODULUS: u mod CHECKSUM_MODULUS for every u of at most 32 bits,
\* and the same of the low 32 bits for a wider u.
C5_UnsignedIsModOfLow32 ==
    (steps > 0 /\ arg.cat = "unsigned" /\ prev = Zero)
        => IsModOf(sum, Low32(arg.u))

C5_Witness ==
    /\ steps > 0
    /\ arg.cat = "unsigned"
    /\ prev = Zero
    /\ arg.u = U32(CHECKSUM_MODULUS)
    /\ sum = Zero

\* C6 as stated: combining an enumeration value into 0 gives what combining
\* ordinal + 10, read as an unsigned value, gives.
C6_EnumAsUnsigned ==
    (steps > 0 /\ arg.cat = "enum" /\ prev = Zero)
        => sum = CheckSumCombine_unsigned(Zero, AsUnsigned(arg.ord + 10))

\* C6 amended: combining an enumeration value into 0 gives
\* |ordinal + 10| mod CHECKSUM_MODULUS (the signed rule); that is what the
\* unsigned reading gives when ordinal >= -10, as for every ShipSlotType.
C6_EnumAsSigned ==
    (steps > 0 /\ arg.cat = "enum" /\ prev = Zero)
        => /\ IsModOf(sum, U32(Abs(arg.ord + 10)))
           /\ arg.ord >= -10
                => sum = CheckSumCombine_unsigned(Zero, AsUnsigned(arg.ord + 10))

C6_Witness ==
    /\ steps > 0
    /\ arg.cat = "enum"
    /\ prev = Zero
    /\ arg.ord = INVALID_SHIP_SLOT_TYPE
    /\ sum = U32(9)

\* C7 as stated: swapping the two different components of a pair changes
\* the checksum.
C7_SwapChangesCheckSum ==
    (steps > 0 /\ arg.cat = "pair" /\ prev = Zero /\ arg.first # arg.second)
        => sum # CheckSumCombine(Zero, Pair(arg.second, arg.first))

\* an integer below 2^31: adding two of them does not wrap
SmallInteger(v) ==
    \/ v.cat = "signed"
    \/ v.cat = "unsigned" /\ Low32(v.u)[2] < Limb \div 2

\* |v| as a uint32_t
Magnitude(v) == IF v.cat = "signed" THEN U32(Abs(v.i)) ELSE Low32(v.u)

\* C7 amended: a pair combines its first component and then its second, and
\* swapping them need not change the checksum: for two integers below 2^31
\* both orders give (|k| + |v|) mod CHECKSUM_MODULUS.
C7_SwapOfIntegersKeepsCheckSum ==
    (/\ steps > 0 /\ arg.cat = "pair" /\ prev = Zero
     /\ SmallInteger(arg.first) /\ SmallInteger(arg.second))
        => /\ sum = CheckSumCombine(Zero, Pair(arg.second, arg.first))
           /\ IsModOf(sum, U32Add(Magnitude(arg.first), Magnitude(arg.second)))

C7_Witness ==
    /\ steps > 0
    /\ arg.cat = "pair"
    /\ prev = Zero
    /\ arg.first = [cat |-> "unsigned", u |-> U32(5)]
    /\ arg.second = [cat |-> "signed", i |-> -7]
    /\ sum = U32(12)

\* C8: combining an absent pointer leaves the accumulator exactly as it was,
\* whatever it was; a present pointer contributes what its target does.
C8_AbsentIsNoOp ==
    (steps > 0 /\ arg.cat = "ptr")
        => IF arg.present
           THEN sum = CheckSumCombine(prev, arg.target)
           ELSE sum = prev

C8_Witness ==
    /\ steps > 0
    /\ arg.cat = "ptr"
    /\ ~arg.present
    /\ ~InRange(prev)
    /\ sum = prev

(***************************************************************************)
(* Properties of the registry.                                             *)
(***************************************************************************)
\* the entries of a collection as the values the combinator folds
EntryValues(hulls) ==
    LET entries == Entries(hulls)
    IN  [k \in 1..Len(entries) |-> EntryValue(entries[k])]

\* C2: once a future yielding a collection is attached and a query has
\* resolved it, GetShipHull returns the source's hull for each of its names
\* and nullptr for any other name, and size is the source's entry count.
C2_RoundTrip ==
    \A r \in Readers :
        (pc[r] = "done" /\ fresh[r] /\ sets >= 1) =>
            /\ result[r].op = "GetShipHull" =>
                 IF result[r].name \in DOMAIN source
                 THEN /\ result[r].value.found
                      /\ result[r].value.hull = source[result[r].name]
                 ELSE ~result[r].value.found
            /\ result[r].op = "size" =>
                 result[r].value = Cardinality(DOMAIN source)
            /\ result[r].op = "begin" =>
                 /\ Len(result[r].value) = Cardinality(DOMAIN source)
                 /\ \A k \in 1..Len(result[r].value) :
                      source[result[r].value[k][1]] = result[r].value[k][2]

C2_Witness ==
    \E r \in Readers :
        /\ pc[r] = "done"
        /\ fresh[r]
        /\ sets = 2
        /\ result[r].op = "GetShipHull"
        /\ result[r].name = NameB
        /\ result[r].value.found
        /\ result[r].value.hull.m_structure = 20

\* C3: once a query has been answered after a SetShipHulls, the pending
\* marker is gone and the future has been resolved once; until the next
\* SetShipHulls no step resolves it again or changes the content, and any
\* two queries observe the same collection.
C3_ResolutionIsIdempotent ==
    /\ [][(sets >= 1 /\ served >= 1 /\ sets' = sets) =>
            /\ m_pending_ship_hulls = None
            /\ resolved = 1
            /\ m_pending_ship_hulls' = None
            /\ m_hulls' = m_hulls
            /\ resolved' = resolved]_vars
    /\ [](\A r1, r2 \in Readers :
            (pc[r1] = "done" /\ pc[r2] = "done" /\ fresh[r1] /\ fresh[r2])
                => result[r1].from = result[r2].from)

C3_Witness ==
    /\ sets >= 1
    /\ served = 2
    /\ resolved = 1
    /\ m_pending_ship_hulls = None
    /\ m_hulls = source
    /\ \E r \in Readers : pc[r] = "done" /\ fresh[r] /\ result[r].from = m_hulls

\* C4: GetCheckSum resolves a pending future first and returns what the
\* container rule of CheckSumCombine gives for the whole collection from 0:
\* every entry in key order, then the entry count, modulo CHECKSUM_MODULUS.
C4_CheckSumIsContainerRule ==
    \A r \in Readers :
        (pc[r] = "done" /\ result[r].op = "GetCheckSum") =>
            /\ result[r].value =
                 CheckSumCombine(Zero, Container(EntryValues(result[r].from)))
            /\ InRange(result[r].value)
            /\ fresh[r] => /\ m_pending_ship_hulls = None
                           /\ sets >= 1 => result[r].from = source

C4_Witness ==
    \E r \in Readers :
        /\ pc[r] = "done"
        /\ fresh[r]
        /\ result[r].op = "GetCheckSum"
        /\ size(result[r].from) = 2
        /\ NameH \in DOMAIN result[r].from
        /\ result[r].value = U32(1234706)

====
